---- MODULE Spec2Model ----
\* Model of siderolabs/go-tools image-signer: pkg/signer (auth.go, verify, sign)
\* and the `sign` command's batch loop (signImages).
EXTENDS Integers, Sequences, FiniteSets, TLC

\* ---------------------------------------------------------------- bounds
MaxImages == 2
MaxSigs == 2
NumCallers == 2
MaxRuns == 3

\* ---------------------------------------------------------------- data
\* Image reference strings handed to the command line.
ImageNames == {"ghcr.io/siderolabs/tools:v1", "ghcr.io/Sidero Labs/@@"}

\* The reference strings that follow the registry/repository:tag grammar.
WellFormedRefs == {"ghcr.io/siderolabs/tools:v1"}

Providers == {"", "google", "github", "microsoft", "yahoo"}

CosignSignatureType == "cosign container image signature"
CosignSignPredicateType == "https://sigstore.dev/cosign/sign/v1"
OtherTypeTag == "atomic container signature"

Nil == <<>>
NoToken == 0

\* fmt.Errorf("<prefix>: %w", err): the message chain, cause last.
Errorf(prefix, err) == prefix \o err

ErrNoSignaturesFound == <<"ErrNoSignaturesFound">>
ErrNoMatchingAttestations == <<"ErrNoMatchingAttestations">>
ErrRegistry == <<"registry unreachable">>
ErrTUF == <<"tuf fetch failed">>
ErrOIDC == <<"oidc flow failed">>
ErrFulcio == <<"signing backend failed">>
ErrCanceled == <<"context canceled">>

RECURSIVE SeqsUpTo(_, _)
SeqsUpTo(S, n) ==
    IF n = 0 THEN {<<>>}
    ELSE LET shorter == SeqsUpTo(S, n - 1)
         IN shorter \cup {Append(s, x) : s \in {t \in shorter : Len(t) = n - 1}, x \in S}

\* A legacy signature as the checks of verifyLegacySignature see it:
\* Payload() may fail, the payload may not be JSON, critical.type is a string.
LegacySigs ==
    { [payloadOk |-> TRUE, jsonOk |-> TRUE, type |-> CosignSignatureType],
      [payloadOk |-> TRUE, jsonOk |-> TRUE, type |-> OtherTypeTag],
      [payloadOk |-> TRUE, jsonOk |-> FALSE, type |-> ""],
      [payloadOk |-> FALSE, jsonOk |-> FALSE, type |-> ""] }

\* A bundled signature: payload, DSSE envelope JSON, base64 payload,
\* in-toto statement JSON, predicate type.
BundledSigs ==
    { [payloadOk |-> TRUE, envelopeOk |-> TRUE, b64Ok |-> TRUE, statementOk |-> TRUE, type |-> CosignSignPredicateType],
      [payloadOk |-> TRUE, envelopeOk |-> TRUE, b64Ok |-> TRUE, statementOk |-> TRUE, type |-> OtherTypeTag],
      [payloadOk |-> TRUE, envelopeOk |-> TRUE, b64Ok |-> TRUE, statementOk |-> FALSE, type |-> ""],
      [payloadOk |-> TRUE, envelopeOk |-> TRUE, b64Ok |-> FALSE, statementOk |-> FALSE, type |-> ""],
      [payloadOk |-> TRUE, envelopeOk |-> FALSE, b64Ok |-> FALSE, statementOk |-> FALSE, type |-> ""],
      [payloadOk |-> FALSE, envelopeOk |-> FALSE, b64Ok |-> FALSE, statementOk |-> FALSE, type |-> ""] }

BackendErrors == {ErrNoSignaturesFound, ErrNoMatchingAttestations, ErrRegistry}

\* What cosign.VerifyImageSignatures / VerifyImageAttestations hand back:
\* (signatures, bundleVerified, err); on error the other two are zero values.
Responses(Sigs) ==
    { [signatures |-> s, bundleVerified |-> b, verifyErr |-> Nil] :
          s \in (SeqsUpTo(Sigs, MaxSigs) \ {<<>>}), b \in BOOLEAN }
    \cup { [signatures |-> <<>>, bundleVerified |-> FALSE, verifyErr |-> e] : e \in BackendErrors }

NoResponse == [signatures |-> <<>>, bundleVerified |-> FALSE, verifyErr |-> Nil]

\* The answer to a query made on a context that is already done.
CanceledResponse == [signatures |-> <<>>, bundleVerified |-> FALSE, verifyErr |-> ErrCanceled]

\* What the registry holds of one format of one image is one of "any",
\* which leaves the backend free to answer anything, "absent", "present"
\* (there before the first run) and "signed" (uploaded by a signing call
\* that succeeded), which fix its answer.
GoodLegacySig == [payloadOk |-> TRUE, jsonOk |-> TRUE, type |-> CosignSignatureType]

GoodBundledSig ==
    [payloadOk |-> TRUE, envelopeOk |-> TRUE, b64Ok |-> TRUE, statementOk |-> TRUE, type |-> CosignSignPredicateType]

\* The answers cosign.VerifyImageSignatures can give on a context that is
\* done or not, for a registry holding.
LegacyAnswers(done, held) ==
    IF done THEN {CanceledResponse}
    ELSE IF held = "any" THEN Responses(LegacySigs)
    ELSE IF held = "absent"
         THEN {[signatures |-> <<>>, bundleVerified |-> FALSE, verifyErr |-> ErrNoSignaturesFound]}
    ELSE {[signatures |-> <<GoodLegacySig>>, bundleVerified |-> TRUE, verifyErr |-> Nil]}

\* The same for cosign.VerifyImageAttestations.
BundledAnswers(done, held) ==
    IF done THEN {CanceledResponse}
    ELSE IF held = "any" THEN Responses(BundledSigs)
    ELSE IF held = "absent"
         THEN {[signatures |-> <<>>, bundleVerified |-> FALSE, verifyErr |-> ErrNoMatchingAttestations]}
    ELSE {[signatures |-> <<GoodBundledSig>>, bundleVerified |-> TRUE, verifyErr |-> Nil]}

\* A signing call that succeeded uploads the signature.
Uploaded(held) == IF held = "any" THEN "any" ELSE IF held = "absent" THEN "signed" ELSE held

\* ---------------------------------------------------------------- verify
\* errors.As(err, &target): the target type occurs in the chain.
validateNoSignatureFound(err) == \E i \in 1..Len(err) : <<err[i]>> = ErrNoSignaturesFound

validateNoMatchingAttestations(err) == \E i \in 1..Len(err) : <<err[i]>> = ErrNoMatchingAttestations

\* The legacy checks without the comparison of critical.type.
legacySigErrNoTypeCheck(sig) ==
    IF ~sig.payloadOk THEN <<"error getting signature payload">>
    ELSE IF ~sig.jsonOk THEN <<"error unmarshaling signature payload">>
    ELSE Nil

\* The error of one legacy signature's checks, Nil if it passes.
legacySigErr(sig) ==
    IF ~sig.payloadOk THEN <<"error getting signature payload">>
    ELSE IF ~sig.jsonOk THEN <<"error unmarshaling signature payload">>
    ELSE IF sig.type # CosignSignatureType
         THEN <<"legacy signature found but with unexpected type", sig.type>>
    ELSE Nil

bundledSigErr(sig) ==
    IF ~sig.payloadOk THEN <<"error getting signature payload">>
    ELSE IF ~sig.envelopeOk THEN <<"error unmarshaling signature payload">>
    ELSE IF ~sig.b64Ok THEN <<"error decoding signature payload">>
    ELSE IF ~sig.statementOk THEN <<"error unmarshaling signature statement">>
    ELSE IF sig.type # CosignSignPredicateType
         THEN <<"bundled signature found but with unexpected type", sig.type>>
    ELSE Nil

\* for _, sig := range signatures: the first failing signature's error.
RECURSIVE firstLegacySigErr(_, _)
firstLegacySigErr(sigs, i) ==
    IF i > Len(sigs) THEN Nil
    ELSE IF legacySigErr(sigs[i]) # Nil THEN legacySigErr(sigs[i])
    ELSE firstLegacySigErr(sigs, i + 1)

RECURSIVE firstBundledSigErr(_, _)
firstBundledSigErr(sigs, i) ==
    IF i > Len(sigs) THEN Nil
    ELSE IF bundledSigErr(sigs[i]) # Nil THEN bundledSigErr(sigs[i])
    ELSE firstBundledSigErr(sigs, i + 1)

\* verifyLegacySignature without the test of bundleVerified's failure: an
\* unverified answer counts as no signature.
verifyLegacySignatureUnverifiedAbsent(resp) ==
    IF resp.verifyErr = Nil
    THEN IF ~resp.bundleVerified
         THEN [present |-> FALSE, err |-> Nil]
         ELSE LET e == firstLegacySigErr(resp.signatures, 1)
              IN IF e # Nil THEN [present |-> FALSE, err |-> e]
                 ELSE [present |-> TRUE, err |-> Nil]
    ELSE IF validateNoSignatureFound(resp.verifyErr)
         THEN [present |-> FALSE, err |-> Nil]
         ELSE [present |-> FALSE, err |-> resp.verifyErr]

\* verifyLegacySignature: (present, err)
verifyLegacySignature(resp) ==
    IF resp.verifyErr = Nil
    THEN IF ~resp.bundleVerified
         THEN [present |-> FALSE, err |-> <<"legacy signatures found but verification failed">>]
         ELSE LET e == firstLegacySigErr(resp.signatures, 1)
              IN IF e # Nil THEN [present |-> FALSE, err |-> e]
                 ELSE [present |-> TRUE, err |-> Nil]
    ELSE IF validateNoSignatureFound(resp.verifyErr)
         THEN [present |-> FALSE, err |-> Nil]
         ELSE [present |-> FALSE, err |-> resp.verifyErr]

\* verifyBundledSignature testing for the legacy not-found error type.
verifyBundledSignatureLegacyNotFound(resp) ==
    IF resp.verifyErr = Nil
    THEN IF ~resp.bundleVerified
         THEN [present |-> FALSE, err |-> <<"bundled signatures found but verification failed">>]
         ELSE LET e == firstBundledSigErr(resp.signatures, 1)
              IN IF e # Nil THEN [present |-> FALSE, err |-> e]
                 ELSE [present |-> TRUE, err |-> Nil]
    ELSE IF validateNoSignatureFound(resp.verifyErr)
         THEN [present |-> FALSE, err |-> Nil]
         ELSE [present |-> FALSE, err |-> resp.verifyErr]

\* verifyBundledSignature: (present, err)
verifyBundledSignature(resp) ==
    IF resp.verifyErr = Nil
    THEN IF ~resp.bundleVerified
         THEN [present |-> FALSE, err |-> <<"bundled signatures found but verification failed">>]
         ELSE LET e == firstBundledSigErr(resp.signatures, 1)
              IN IF e # Nil THEN [present |-> FALSE, err |-> e]
                 ELSE [present |-> TRUE, err |-> Nil]
    ELSE IF validateNoMatchingAttestations(resp.verifyErr)
         THEN [present |-> FALSE, err |-> Nil]
         ELSE [present |-> FALSE, err |-> resp.verifyErr]

\* ---------------------------------------------------------------- auth
\* A provider switch whose default branch also picks a getter.
SupportedProvidersOpen == Providers

SupportedProviders == {"", "google", "github", "microsoft"}

\* A getter choice in which a named provider wins over the deviceFlow flag.
tokenGetterForProviderFirst(p, d) ==
    IF p = "google" THEN "PublicInstanceGoogleIDTokenGetter"
    ELSE IF p = "github" THEN "PublicInstanceGithubIDTokenGetter"
    ELSE IF p = "microsoft" THEN "PublicInstanceMicrosoftIDTokenGetter"
    ELSE IF d THEN "DeviceFlowTokenGetterForIssuer(DefaultOIDCIssuerURL)"
    ELSE "DefaultIDTokenGetter"

\* The switch of getToken's closure followed by the deviceFlow override.
tokenGetterFor(p, d) ==
    IF d THEN "DeviceFlowTokenGetterForIssuer(DefaultOIDCIssuerURL)"
    ELSE IF p = "" THEN "DefaultIDTokenGetter"
    ELSE IF p = "google" THEN "PublicInstanceGoogleIDTokenGetter"
    ELSE IF p = "github" THEN "PublicInstanceGithubIDTokenGetter"
    ELSE "PublicInstanceMicrosoftIDTokenGetter"

\* A sync.OnceValues object wrapping the token closure.
NewOnce(p, d) ==
    [provider |-> p, deviceFlow |-> d, state |-> "new", tok |-> NoToken, err |-> Nil]

\* getToken(provider, deviceFlow): every call wraps a new closure in a new
\* sync.OnceValues and returns it; fn is the returned function's cell.
getToken(os, p, d) ==
    [onces |-> Append(os, NewOnce(p, d)), fn |-> Len(os) + 1]

\* ---------------------------------------------------------------- state
VARIABLES
    images,         \* args of the sign command
    provider,       \* signOptions.OIDCProvider
    deviceFlow,     \* signOptions.DeviceFlow
    pc,             \* position of signImages (and of its callees)
    idx,            \* loop position in images, 1-based
    legacyStatus,   \* VerifySignature's local
    lastResp,       \* the backend answer the running verify* call works on
    signatureInfo,  \* per image: the status VerifySignature returned
    token,          \* SignImage's local
    onces,          \* the sync.OnceValues objects created so far
    log,            \* history of the calls made and of the errors they gave
    retErr,         \* what signImages returned
    callers,        \* goroutines calling getToken(provider, deviceFlow)()
    ctxDone,        \* <<n>> once the signal context is done: the interrupt
                    \* arrived after n calls; <<>> before
    registry,       \* per image name, what the registry holds of each format
    prevRun         \* the earlier runs of the command: where each ended in
                    \* log and what it returned

vars == <<images, provider, deviceFlow, pc, idx, legacyStatus, lastResp,
          signatureInfo, token, onces, log, retErr, callers, ctxDone, registry, prevRun>>

NoStatus == [inspected |-> FALSE, LegacySignature |-> FALSE, BundleSignature |-> FALSE]

\* A returned status with its two fields exchanged.
StatusSwapped(l, b) == [inspected |-> TRUE, LegacySignature |-> b, BundleSignature |-> l]

Status(l, b) == [inspected |-> TRUE, LegacySignature |-> l, BundleSignature |-> b]

\* One step of the run as its call site sees it: the call, the image (or the
\* caller) it is for, NewBundleFormat, the error the call site got out of it
\* (Nil: none), the token issued or used, and the token getter of OIDConnect.
Ev(op, img, bundle, err, tok, getter) ==
    [op |-> op, img |-> img, bundle |-> bundle, err |-> err, tok |-> tok, getter |-> getter]

NumFlows(l) == Cardinality({i \in 1..Len(l) : l[i].op = "OIDConnect"})

\* name.ParseReference: Nil for a well-formed reference.
ParseReference(image) ==
    IF image \in WellFormedRefs THEN Nil
    ELSE <<"could not parse reference", image>>

Batches == SeqsUpTo(ImageNames, MaxImages) \ {<<>>}

Init ==
    /\ images \in Batches
    /\ provider \in Providers
    /\ deviceFlow \in BOOLEAN
    /\ pc = "loop"
    /\ idx = 1
    /\ legacyStatus = FALSE
    /\ lastResp = NoResponse
    /\ signatureInfo = [i \in 1..Len(images) |-> NoStatus]
    /\ token = NoToken
    /\ onces = <<>>
    /\ log = <<>>
    /\ retErr = Nil
    /\ callers = <<>>
    /\ ctxDone = <<>>
    /\ registry = [n \in ImageNames |-> [legacy |-> "any", bundle |-> "any"]]
    /\ prevRun = <<>>

\* -------------------------------------------------------- signImages
\* A skip test with the second flag negated.
ShouldSkipLegacyOnly(st) == st.LegacySignature /\ ~st.BundleSignature

\* The skip test of signImages.
ShouldSkip(st) == st.LegacySignature /\ st.BundleSignature

\* the next statement of the same image
Goto(label) ==
    /\ pc' = label
    /\ UNCHANGED <<idx, retErr>>

\* A loop step that passes over the following image.
ContinueSkippingOne ==
    /\ pc' = "loop"
    /\ idx' = idx + 2
    /\ UNCHANGED retErr

\* continue / end of the loop body: the next image
Continue ==
    /\ pc' = "loop"
    /\ idx' = idx + 1
    /\ UNCHANGED retErr

\* An error that is reported and passed over: the loop goes on.
ReturnOnlyNil(err) ==
    IF err = Nil
    THEN pc' = "done" /\ retErr' = err /\ UNCHANGED idx
    ELSE pc' = "loop" /\ idx' = idx + 1 /\ UNCHANGED retErr

\* return err out of signImages
Return(err) ==
    /\ pc' = "done"
    /\ retErr' = err
    /\ UNCHANGED idx

\* VerifySignature going on with the reference whatever ParseReference said.
ProcessImageIgnoringParseError ==
    /\ pc = "loop"
    /\ idx <= Len(images)
    /\ log' = Append(log, Ev("ParseReference", idx, FALSE, ParseReference(images[idx]), NoToken, ""))
    /\ Goto("verify_root")
    /\ lastResp' = NoResponse
    /\ legacyStatus' = FALSE
    /\ UNCHANGED <<images, provider, deviceFlow, ctxDone, registry, prevRun, signatureInfo, token, onces, callers>>

\* for _, image := range images { ...; VerifySignature: name.ParseReference
ProcessImage ==
    /\ pc = "loop"
    /\ idx <= Len(images)
    /\ LET err == ParseReference(images[idx])
       IN /\ log' = Append(log, Ev("ParseReference", idx, FALSE, err, NoToken, ""))
          /\ IF err # Nil
             THEN Return(Errorf(<<"error parsing image reference for", images[idx]>>, err))
             ELSE Goto("verify_root")
    /\ lastResp' = NoResponse
    /\ legacyStatus' = FALSE
    /\ UNCHANGED <<images, provider, deviceFlow, ctxDone, registry, prevRun, signatureInfo, token, onces, callers>>

\* the loop is over: return nil
ReturnNil ==
    /\ pc = "loop"
    /\ idx > Len(images)
    /\ Return(Nil)
    /\ UNCHANGED <<images, provider, deviceFlow, ctxDone, registry, prevRun, legacyStatus, lastResp,
                   signatureInfo, token, onces, log, callers>>

\* VerifySignature: cosign.TrustedRoot()
VerifyTrustedRoot ==
    /\ pc = "verify_root"
    /\ \E err \in {Nil, ErrTUF} :
          /\ log' = Append(log, Ev("TrustedRoot", idx, FALSE, err, NoToken, ""))
          /\ IF err # Nil
             THEN Return(Errorf(<<"error getting trusted roots">>, err))
             ELSE Goto("verify_legacy")
    /\ UNCHANGED <<images, provider, deviceFlow, ctxDone, registry, prevRun, legacyStatus, lastResp,
                   signatureInfo, token, onces, callers>>

\* VerifySignature: verifyLegacySignature
VerifyLegacy ==
    /\ pc = "verify_legacy"
    /\ \E resp \in LegacyAnswers(ctxDone # <<>>, registry[images[idx]].legacy) :
          LET r == verifyLegacySignature(resp)
          IN /\ lastResp' = resp
             /\ log' = Append(log, Ev("VerifyImageSignatures", idx, FALSE, r.err, NoToken, ""))
             /\ legacyStatus' = r.present
             /\ IF r.err # Nil
                THEN Return(Errorf(<<"error verifying legacy signature">>, r.err))
                ELSE Goto("verify_bundled")
    /\ UNCHANGED <<images, provider, deviceFlow, ctxDone, registry, prevRun, signatureInfo, token, onces, callers>>

\* VerifySignature: verifyBundledSignature and the returned status
VerifyBundled ==
    /\ pc = "verify_bundled"
    /\ \E resp \in BundledAnswers(ctxDone # <<>>, registry[images[idx]].bundle) :
          LET r == verifyBundledSignature(resp)
          IN /\ lastResp' = resp
             /\ log' = Append(log, Ev("VerifyImageAttestations", idx, TRUE, r.err, NoToken, ""))
             /\ IF r.err # Nil
                THEN /\ Return(Errorf(<<"error verifying bundled signature">>, r.err))
                     /\ UNCHANGED signatureInfo
                ELSE /\ Goto("inspected")
                     /\ signatureInfo' = [signatureInfo EXCEPT ![idx] = Status(legacyStatus, r.present)]
    /\ UNCHANGED <<images, provider, deviceFlow, ctxDone, registry, prevRun, legacyStatus, token, onces, callers>>

\* already signed with both: continue
Skip ==
    /\ pc = "inspected"
    /\ ShouldSkip(signatureInfo[idx])
    /\ Continue
    /\ lastResp' = NoResponse
    /\ UNCHANGED <<images, provider, deviceFlow, ctxDone, registry, prevRun, legacyStatus,
                   signatureInfo, token, onces, log, callers>>

\* ---------------------------------------------------------------- SignImage
\* A closure that applies the deviceFlow override before looking at the
\* provider.
tokenClosureDeviceFirst(p, d, issuerErr, n) ==
    IF ~d /\ p \notin SupportedProviders
    THEN [tok |-> NoToken, err |-> <<"unsupported provider", p>>, flow |-> FALSE]
    ELSE IF issuerErr = Nil
         THEN [tok |-> n, err |-> Nil, flow |-> TRUE]
         ELSE [tok |-> NoToken, err |-> issuerErr, flow |-> TRUE]

\* The closure wrapped by sync.OnceValues, run with the issuer's answer:
\* flow tells whether oauthflow.OIDConnect was called; a flow that succeeds
\* issues token n.
tokenClosure(p, d, issuerErr, n) ==
    IF p \notin SupportedProviders
    THEN [tok |-> NoToken, err |-> <<"unsupported provider", p>>, flow |-> FALSE]
    ELSE IF issuerErr = Nil
         THEN [tok |-> n, err |-> Nil, flow |-> TRUE]
         ELSE [tok |-> NoToken, err |-> issuerErr, flow |-> TRUE]

\* The step a run of the closure leaves in the history: the OIDConnect call,
\* or the provider switch's default branch.
closureEvent(o, r, who) ==
    IF r.flow
    THEN Ev("OIDConnect", who, FALSE, r.err, r.tok, tokenGetterFor(o.provider, o.deviceFlow))
    ELSE Ev("unsupported provider", who, FALSE, r.err, NoToken, "")

\* signImages calls SignImage: cosign.TrustedRoot()
SignTrustedRoot ==
    /\ pc = "inspected"
    /\ ~ShouldSkip(signatureInfo[idx])
    /\ \E err \in {Nil, ErrTUF} :
          /\ log' = Append(log, Ev("TrustedRoot", idx, FALSE, err, NoToken, ""))
          /\ IF err # Nil
             THEN Return(Errorf(<<"failed to sign image", images[idx]>>,
                                Errorf(<<"error getting trusted roots">>, err)))
             ELSE Goto("sign_token")
    /\ lastResp' = NoResponse
    /\ UNCHANGED <<images, provider, deviceFlow, ctxDone, registry, prevRun, legacyStatus,
                   signatureInfo, token, onces, callers>>

\* SignImage asking for the token a second time when the first request fails.
SignGetTokenRetrying ==
    /\ pc = "sign_token"
    /\ \E issuerErr \in {Nil, ErrOIDC} :
          LET g == getToken(onces, provider, deviceFlow)
              o == g.onces[g.fn]
              r == tokenClosure(o.provider, o.deviceFlow, issuerErr, NumFlows(log) + 1)
              first == \A k \in 1..Len(log) :
                          log[k].img = idx => log[k].op \notin {"OIDConnect", "unsupported provider"}
          IN /\ onces' = [g.onces EXCEPT ![g.fn] = [o EXCEPT !.state = "done", !.tok = r.tok, !.err = r.err]]
             /\ log' = Append(log, closureEvent(o, r, idx))
             /\ token' = r.tok
             /\ IF r.err # Nil
                THEN IF first THEN Goto("sign_token")
                     ELSE Return(Errorf(<<"failed to sign image", images[idx]>>,
                                        Errorf(<<"error getting OIDC token">>, r.err)))
                ELSE Goto("sign_legacy")
    /\ UNCHANGED <<images, provider, deviceFlow, ctxDone, registry, prevRun, legacyStatus, lastResp,
                   signatureInfo, callers>>

\* SignImage going on to sign whatever getToken's function returned.
SignGetTokenIgnoringError ==
    /\ pc = "sign_token"
    /\ \E issuerErr \in {Nil, ErrOIDC} :
          LET g == getToken(onces, provider, deviceFlow)
              o == g.onces[g.fn]
              r == tokenClosure(o.provider, o.deviceFlow, issuerErr, NumFlows(log) + 1)
          IN /\ onces' = [g.onces EXCEPT ![g.fn] = [o EXCEPT !.state = "done", !.tok = r.tok, !.err = r.err]]
             /\ log' = Append(log, closureEvent(o, r, idx))
             /\ token' = r.tok
             /\ Goto("sign_legacy")
    /\ UNCHANGED <<images, provider, deviceFlow, ctxDone, registry, prevRun, legacyStatus, lastResp,
                   signatureInfo, callers>>

\* SignImage: token, err := getToken(provider, deviceFlow)()
SignGetToken ==
    /\ pc = "sign_token"
    /\ \E issuerErr \in {Nil, ErrOIDC} :
          LET g == getToken(onces, provider, deviceFlow)
              o == g.onces[g.fn]
              ran == o.state # "done"
              r == IF ran
                   THEN tokenClosure(o.provider, o.deviceFlow, issuerErr, NumFlows(log) + 1)
                   ELSE [tok |-> o.tok, err |-> o.err, flow |-> FALSE]
          IN /\ onces' = [g.onces EXCEPT ![g.fn] = [o EXCEPT !.state = "done", !.tok = r.tok, !.err = r.err]]
             /\ log' = IF ran THEN Append(log, closureEvent(o, r, idx)) ELSE log
             /\ token' = r.tok
             /\ IF r.err # Nil
                THEN Return(Errorf(<<"failed to sign image", images[idx]>>,
                                   Errorf(<<"error getting OIDC token">>, r.err)))
                ELSE Goto("sign_legacy")
    /\ UNCHANGED <<images, provider, deviceFlow, ctxDone, registry, prevRun, legacyStatus, lastResp,
                   signatureInfo, callers>>

\* A legacy test that always signs.
NeedLegacyAlways(st) == TRUE

\* SignImage's tests of its legacySigned and bundleSigned arguments.
NeedLegacy(st) == ~st.LegacySignature

\* A bundled test that reads the legacy flag.
NeedBundledReadsLegacy(st) == ~st.LegacySignature

\* A bundled test that always signs.
NeedBundledAlways(st) == TRUE

NeedBundled(st) == ~st.BundleSignature

\* SignImage noting a legacy signing error and going on with the bundled format.
SignLegacyBestEffort ==
    /\ pc = "sign_legacy"
    /\ IF NeedLegacy(signatureInfo[idx])
       THEN \E err \in {Nil, ErrFulcio} :
               /\ log' = Append(log, Ev("SignCmd", idx, FALSE, err, token, ""))
               /\ registry' = IF err = Nil
                              THEN [registry EXCEPT ![images[idx]].legacy = Uploaded(@)]
                              ELSE registry
               /\ Goto("sign_bundled")
       ELSE Goto("sign_bundled") /\ UNCHANGED <<log, registry>>
    /\ UNCHANGED <<images, provider, deviceFlow, ctxDone, prevRun, legacyStatus, lastResp,
                   signatureInfo, token, onces, callers>>

\* SignImage: if !legacySigned { sign.SignCmd(...) }
SignLegacy ==
    /\ pc = "sign_legacy"
    /\ IF NeedLegacy(signatureInfo[idx])
       THEN \E err \in {Nil, ErrFulcio} :
               /\ log' = Append(log, Ev("SignCmd", idx, FALSE, err, token, ""))
               /\ registry' = IF err = Nil
                              THEN [registry EXCEPT ![images[idx]].legacy = Uploaded(@)]
                              ELSE registry
               /\ IF err # Nil
                  THEN Return(Errorf(<<"failed to sign image", images[idx]>>,
                                     Errorf(<<"error signing legacy signature for image", images[idx]>>, err)))
                  ELSE Goto("sign_bundled")
       ELSE Goto("sign_bundled") /\ UNCHANGED <<log, registry>>
    /\ UNCHANGED <<images, provider, deviceFlow, ctxDone, prevRun, legacyStatus, lastResp,
                   signatureInfo, token, onces, callers>>

\* SignImage: if !bundleSigned { NewBundleFormat = true; sign.SignCmd(...) };
\* return nil, and signImages goes on with the next image.
SignBundled ==
    /\ pc = "sign_bundled"
    /\ IF NeedBundled(signatureInfo[idx])
       THEN \E err \in {Nil, ErrFulcio} :
               /\ log' = Append(log, Ev("SignCmd", idx, TRUE, err, token, ""))
               /\ registry' = IF err = Nil
                              THEN [registry EXCEPT ![images[idx]].bundle = Uploaded(@)]
                              ELSE registry
               /\ IF err # Nil
                  THEN Return(Errorf(<<"failed to sign image", images[idx]>>,
                                     Errorf(<<"error signing bundled signature for image", images[idx]>>, err)))
                  ELSE Continue
       ELSE Continue /\ UNCHANGED <<log, registry>>
    /\ UNCHANGED <<images, provider, deviceFlow, ctxDone, prevRun, legacyStatus, lastResp,
                   signatureInfo, token, onces, callers>>

\* os.Interrupt arrives while signImages runs: the context made by
\* signal.NotifyContext is done from now on. Only the calls that were given
\* ctx (the two queries of VerifySignature) see it.
Interrupt ==
    /\ pc \notin {"done", "callers"}
    /\ ctxDone = <<>>
    /\ ctxDone' = <<Len(log)>>
    /\ UNCHANGED <<images, provider, deviceFlow, pc, idx, legacyStatus, lastResp,
                   signatureInfo, token, onces, log, retErr, callers, registry, prevRun>>

Next ==
    \/ ProcessImage
    \/ ReturnNil
    \/ VerifyTrustedRoot
    \/ VerifyLegacy
    \/ VerifyBundled
    \/ Skip
    \/ SignTrustedRoot
    \/ SignGetToken
    \/ SignLegacy
    \/ SignBundled
    \/ Interrupt

Spec == Init /\ [][Next]_vars

\* ------------------------------------------------ concurrent callers
\* NumCallers goroutines each evaluate getToken(provider, deviceFlow)()
\* with the same arguments.
Callers == 1..NumCallers

InitConc ==
    /\ images = <<>>
    /\ provider \in Providers
    /\ deviceFlow \in BOOLEAN
    /\ pc = "callers"
    /\ idx = 1
    /\ legacyStatus = FALSE
    /\ lastResp = NoResponse
    /\ signatureInfo = <<>>
    /\ token = NoToken
    /\ onces = <<>>
    /\ log = <<>>
    /\ retErr = Nil
    /\ callers = [c \in Callers |-> [pc |-> "start", fn |-> 0, tok |-> NoToken, err |-> Nil]]
    /\ ctxDone = <<>>
    /\ registry = [n \in ImageNames |-> [legacy |-> "any", bundle |-> "any"]]
    /\ prevRun = <<>>

seqVars == <<images, provider, deviceFlow, pc, idx, legacyStatus, lastResp,
             signatureInfo, token, retErr, ctxDone, registry, prevRun>>

\* getToken(provider, deviceFlow): the caller now holds a function value
CallGetToken(c) ==
    /\ callers[c].pc = "start"
    /\ LET g == getToken(onces, provider, deviceFlow)
       IN /\ onces' = g.onces
          /\ callers' = [callers EXCEPT ![c].pc = "invoke", ![c].fn = g.fn]
    /\ UNCHANGED <<seqVars, log>>

\* the returned function is called: sync.Once.Do. A finished once hands out
\* its stored values, a running one blocks the caller, a new one runs the
\* closure: up to its return for a provider the switch rejects, else up to
\* the call of oauthflow.OIDConnect.
InvokeOnce(c) ==
    /\ callers[c].pc = "invoke"
    /\ LET o == onces[callers[c].fn]
       IN /\ o.state # "running"
          /\ IF o.state = "done"
             THEN /\ callers' = [callers EXCEPT ![c].pc = "returned", ![c].tok = o.tok, ![c].err = o.err]
                  /\ UNCHANGED <<onces, log>>
             ELSE IF o.provider \notin SupportedProviders
             THEN LET r == tokenClosure(o.provider, o.deviceFlow, Nil, 0)
                  IN /\ onces' = [onces EXCEPT ![callers[c].fn] =
                                     [o EXCEPT !.state = "done", !.tok = r.tok, !.err = r.err]]
                     /\ log' = Append(log, closureEvent(o, r, c))
                     /\ callers' = [callers EXCEPT ![c].pc = "returned", ![c].tok = r.tok, ![c].err = r.err]
             ELSE /\ onces' = [onces EXCEPT ![callers[c].fn].state = "running"]
                  /\ callers' = [callers EXCEPT ![c].pc = "flow"]
                  /\ UNCHANGED log
    /\ UNCHANGED seqVars

\* oauthflow.OIDConnect returns; the once stores the values and the caller
\* returns them.
FlowReturns(c) ==
    /\ callers[c].pc = "flow"
    /\ \E issuerErr \in {Nil, ErrOIDC} :
          LET o == onces[callers[c].fn]
              r == tokenClosure(o.provider, o.deviceFlow, issuerErr, NumFlows(log) + 1)
          IN /\ log' = Append(log, closureEvent(o, r, c))
             /\ onces' = [onces EXCEPT ![callers[c].fn] =
                             [o EXCEPT !.state = "done", !.tok = r.tok, !.err = r.err]]
             /\ callers' = [callers EXCEPT ![c].pc = "returned", ![c].tok = r.tok, ![c].err = r.err]
    /\ UNCHANGED seqVars

NextConc ==
    \/ \E c \in Callers : CallGetToken(c)
    \/ \E c \in Callers : InvokeOnce(c)
    \/ \E c \in Callers : FlowReturns(c)

SpecConc == InitConc /\ [][NextConc]_vars

\* ------------------------------------------------ the command run again
\* A registry that keeps what it is given: every format of every image is
\* there or not, a query answers accordingly, and a signing call that
\* succeeds makes the format present.
InitRerun ==
    /\ images \in Batches
    /\ provider \in Providers
    /\ deviceFlow \in BOOLEAN
    /\ pc = "loop"
    /\ idx = 1
    /\ legacyStatus = FALSE
    /\ lastResp = NoResponse
    /\ signatureInfo = [i \in 1..Len(images) |-> NoStatus]
    /\ token = NoToken
    /\ onces = <<>>
    /\ log = <<>>
    /\ retErr = Nil
    /\ callers = <<>>
    /\ ctxDone = <<>>
    /\ registry \in [ImageNames -> [legacy : {"absent", "present"}, bundle : {"absent", "present"}]]
    /\ \A n \in ImageNames \ WellFormedRefs : registry[n] = [legacy |-> "absent", bundle |-> "absent"]
    /\ prevRun = <<>>

\* The command has returned and is started again on the same arguments: a
\* new process, with new locals and no sync.OnceValues left over.
Rerun ==
    /\ pc = "done"
    /\ Len(prevRun) + 1 < MaxRuns
    /\ prevRun' = Append(prevRun, [len |-> Len(log), err |-> retErr])
    /\ pc' = "loop"
    /\ idx' = 1
    /\ legacyStatus' = FALSE
    /\ lastResp' = NoResponse
    /\ signatureInfo' = [i \in 1..Len(images) |-> NoStatus]
    /\ token' = NoToken
    /\ onces' = <<>>
    /\ retErr' = Nil
    /\ ctxDone' = <<>>
    /\ UNCHANGED <<images, provider, deviceFlow, log, callers, registry>>

NextRerun ==
    \/ ProcessImage
    \/ ReturnNil
    \/ VerifyTrustedRoot
    \/ VerifyLegacy
    \/ VerifyBundled
    \/ Skip
    \/ SignTrustedRoot
    \/ SignGetToken
    \/ SignLegacy
    \/ SignBundled
    \/ Rerun

SpecRerun == InitRerun /\ [][NextRerun]_vars

\* ------------------------------------------------ SignImage called directly
\* SignImage is exported: a caller other than signImages calls it for each
\* image of a batch with any pair of flags, the pair of "already signed"
\* included, and hands an error on as signImages does. The flags it passes
\* are kept in signatureInfo. The step is SignImage's first statement,
\* cosign.TrustedRoot().
CallSignImage ==
    /\ pc = "loop"
    /\ idx <= Len(images)
    /\ \E legacySigned, bundleSigned \in BOOLEAN, err \in {Nil, ErrTUF} :
          /\ signatureInfo' = [signatureInfo EXCEPT ![idx] = Status(legacySigned, bundleSigned)]
          /\ log' = Append(log, Ev("TrustedRoot", idx, FALSE, err, NoToken, ""))
          /\ IF err # Nil
             THEN Return(Errorf(<<"failed to sign image", images[idx]>>,
                                Errorf(<<"error getting trusted roots">>, err)))
             ELSE Goto("sign_token")
    /\ lastResp' = NoResponse
    /\ UNCHANGED <<images, provider, deviceFlow, ctxDone, registry, prevRun, legacyStatus,
                   token, onces, callers>>

NextDirect ==
    \/ CallSignImage
    \/ ReturnNil
    \/ SignGetToken
    \/ SignLegacy
    \/ SignBundled

SpecDirect == Init /\ [][NextDirect]_vars

\* ---------------------------------------------------------------- claims
Images == 1..Len(images)

EventsOf(i) == {k \in 1..Len(log) : log[k].img = i}

SignCalls(i) == {k \in EventsOf(i) : log[k].op = "SignCmd"}

Flows == {k \in 1..Len(log) : log[k].op = "OIDConnect"}

FullySigned(st) == st.inspected /\ st.LegacySignature /\ st.BundleSignature

InspectionOps == {"ParseReference", "TrustedRoot", "VerifyImageSignatures", "VerifyImageAttestations"}

\* C1: in a run of signImages, oauthflow.OIDConnect is executed at most once
\* for the run's (provider, deviceFlow) pair, and every signing call uses the
\* token the first flow issued.
C1_OneFlowPerRun ==
    /\ Cardinality(Flows) <= 1
    /\ \A k \in 1..Len(log), f \in Flows :
          log[k].op = "SignCmd" => log[k].tok = log[f].tok

AllReturned == \A c \in Callers : callers[c].pc = "returned"

\* C2: once NumCallers concurrent calls of getToken(provider, deviceFlow)()
\* with identical arguments have all returned, the authentication flow ran
\* no more than once (exactly once for a supported provider) and all
\* callers hold the same token and the same error.
C2_ConcurrentCallersShareOneFlow ==
    (pc = "callers" /\ AllReturned) =>
        /\ Cardinality(Flows) <= 1
        /\ provider \in SupportedProviders => Cardinality(Flows) = 1
        /\ \A c, d \in Callers : callers[c].tok = callers[d].tok /\ callers[c].err = callers[d].err

\* C3: an image inspected as carrying both signatures gets no call beyond
\* its inspection (no SignImage: no trusted-root fetch for signing, no
\* authentication flow, no signing call), and SignImage never runs on a
\* status with both flags true.
C3_FullySignedNeverDispatched ==
    /\ \A i \in Images :
          FullySigned(signatureInfo[i]) =>
              /\ \A k \in EventsOf(i) : log[k].op \in InspectionOps
              /\ Cardinality({k \in EventsOf(i) : log[k].op = "TrustedRoot"}) = 1
    /\ pc \in {"sign_token", "sign_legacy", "sign_bundled"} => ~FullySigned(signatureInfo[idx])

\* C3 witness: a fully signed image was passed over and the run went on to
\* sign a later image.
C3_Witness ==
    \E i \in Images : FullySigned(signatureInfo[i]) /\ i < idx /\ \E j \in Images : SignCalls(j) # {}

OneMissing(st) == st.inspected /\ st.LegacySignature # st.BundleSignature

\* SignImage has returned for image i, or the run is over.
Left(i) == i < idx \/ pc = "done"

\* C4 as stated: an image inspected with exactly one format missing gets
\* exactly one signing call, for the missing format.
C4_ExactlyOneSigningCall ==
    \A i \in Images :
        (OneMissing(signatureInfo[i]) /\ Left(i)) =>
            /\ Cardinality(SignCalls(i)) = 1
            /\ \A k \in SignCalls(i) : log[k].bundle = ~signatureInfo[i].BundleSignature

CredentialObtained(i) == \E k \in EventsOf(i) : log[k].op = "OIDConnect" /\ log[k].err = Nil

\* C4 amended: an image inspected with exactly one format missing gets at
\* most one signing call, only for the missing format, and exactly one once
\* SignImage has obtained the trusted root and the credential for it.
C4_OneSigningCallOnceCredentialed ==
    \A i \in Images :
        OneMissing(signatureInfo[i]) =>
            /\ Cardinality(SignCalls(i)) <= 1
            /\ \A k \in SignCalls(i) : log[k].bundle = ~signatureInfo[i].BundleSignature
            /\ (Left(i) /\ CredentialObtained(i)) => Cardinality(SignCalls(i)) = 1

\* C4 witness: an image missing only the bundled format was signed once and
\* the loop moved on.
C4_Witness ==
    \E i \in Images :
        /\ signatureInfo[i] = Status(TRUE, FALSE)
        /\ i < idx
        /\ Cardinality(SignCalls(i)) = 1

LastOp == IF log = <<>> THEN "" ELSE log[Len(log)].op

\* the backend found signatures and returned no error, but reports the
\* bundle verification as not succeeded
FoundUnverified ==
    /\ lastResp.verifyErr = Nil
    /\ lastResp.signatures # <<>>
    /\ ~lastResp.bundleVerified

\* C5: when the backend answers "found, no error, bundle not verified" for
\* either format, VerifySignature fails with the verification-failed error
\* and returns no status for the image.
C5_UnverifiedIsNotAbsent ==
    FoundUnverified =>
        /\ pc = "done"
        /\ retErr # Nil
        /\ retErr[Len(retErr)] \in {"legacy signatures found but verification failed",
                                    "bundled signatures found but verification failed"}
        /\ ~signatureInfo[idx].inspected

\* C5 witness: the bundled query of a later image came back unverified.
C5_Witness ==
    FoundUnverified /\ LastOp = "VerifyImageAttestations" /\ idx > 1 /\ pc = "done"

LegacySigPasses(sig) == sig.payloadOk /\ sig.jsonOk /\ sig.type = CosignSignatureType

BundledSigPasses(sig) ==
    sig.payloadOk /\ sig.envelopeOk /\ sig.b64Ok /\ sig.statementOk /\ sig.type = CosignSignPredicateType

AllSigsPass ==
    \A n \in 1..Len(lastResp.signatures) :
        IF LastOp = "VerifyImageSignatures"
        THEN LegacySigPasses(lastResp.signatures[n])
        ELSE BundledSigPasses(lastResp.signatures[n])

\* C6: when the backend returns verified signatures and one of them fails
\* to decode or carries another type tag, VerifySignature fails and returns
\* no status; a format's flag is true only if the answer was verified and
\* every returned signature passes the schema and type-tag checks.
C6_MalformedSignatureFails ==
    /\ (lastResp.verifyErr = Nil /\ lastResp.bundleVerified /\ ~AllSigsPass) =>
          (pc = "done" /\ retErr # Nil /\ ~signatureInfo[idx].inspected)
    /\ (pc = "verify_bundled" /\ legacyStatus) =>
          (LastOp = "VerifyImageSignatures" /\ lastResp.bundleVerified /\ AllSigsPass)
    /\ (pc = "inspected" /\ signatureInfo[idx].BundleSignature) =>
          (LastOp = "VerifyImageAttestations" /\ lastResp.bundleVerified /\ AllSigsPass)

\* C6 witness: two verified legacy signatures, the first well-formed, the
\* second with another type tag.
C6_Witness ==
    /\ LastOp = "VerifyImageSignatures"
    /\ lastResp.bundleVerified
    /\ Len(lastResp.signatures) = 2
    /\ LegacySigPasses(lastResp.signatures[1])
    /\ lastResp.signatures[2].jsonOk
    /\ lastResp.signatures[2].type # CosignSignatureType
    /\ pc = "done"

\* C7: a not-found answer (ErrNoSignaturesFound for legacy,
\* ErrNoMatchingAttestations for bundled) sets the format's flag to false
\* without failing; the run goes on to the bundled query, respectively
\* returns the status; every status returned rests on both queries.
C7_NotFoundIsNotAnError ==
    /\ (LastOp = "VerifyImageSignatures" /\ lastResp.verifyErr = ErrNoSignaturesFound) =>
          (pc = "verify_bundled" /\ ~legacyStatus /\ retErr = Nil)
    /\ (LastOp = "VerifyImageAttestations" /\ lastResp.verifyErr = ErrNoMatchingAttestations) =>
          (pc = "inspected" /\ signatureInfo[idx] = Status(legacyStatus, FALSE) /\ retErr = Nil)
    /\ \A i \in Images :
          signatureInfo[i].inspected =>
              /\ \E k \in EventsOf(i) : log[k].op = "VerifyImageSignatures"
              /\ \E k \in EventsOf(i) : log[k].op = "VerifyImageAttestations"

\* C7 witness: both formats reported not found and the status says so.
C7_Witness ==
    /\ LastOp = "VerifyImageAttestations"
    /\ lastResp.verifyErr = ErrNoMatchingAttestations
    /\ signatureInfo[idx] = Status(FALSE, FALSE)

IsSuffix(e, s) == Len(e) <= Len(s) /\ SubSeq(s, Len(s) - Len(e) + 1, Len(s)) = e

\* C8: a step that yields an error is the last step of the run: it belongs
\* to the image the loop is at, the run is over and returns an error whose
\* cause is that step's error; no image after the failing one is inspected
\* or gets any call.
C8_FailFast ==
    /\ \A k \in 1..Len(log) :
          log[k].err # Nil =>
              /\ k = Len(log)
              /\ pc = "done"
              /\ log[k].img = idx
              /\ IsSuffix(log[k].err, retErr)
    /\ retErr # Nil => (pc = "done" /\ log # <<>> /\ log[Len(log)].err # Nil)
    /\ (pc = "done" /\ retErr # Nil) =>
          \A j \in Images : j > idx => (EventsOf(j) = {} /\ ~signatureInfo[j].inspected)

\* C8 witness: the first of two images failed in the signing backend; the run
\* is over and the second image was never touched.
C8_Witness ==
    /\ pc = "done"
    /\ Len(images) = 2
    /\ idx = 1
    /\ LastOp = "SignCmd"
    /\ retErr # Nil
    /\ EventsOf(2) = {}

SkippedOK(i) == FullySigned(signatureInfo[i]) /\ SignCalls(i) = {}

SignedOK(i) ==
    /\ signatureInfo[i].inspected
    /\ ~FullySigned(signatureInfo[i])
    /\ ~signatureInfo[i].LegacySignature =>
          \E k \in SignCalls(i) : ~log[k].bundle /\ log[k].err = Nil
    /\ ~signatureInfo[i].BundleSignature =>
          \E k \in SignCalls(i) : log[k].bundle /\ log[k].err = Nil

\* C9: the finished run returns nil exactly if every image of the batch was
\* skipped as fully signed or had each of its missing formats signed
\* successfully.
C9_SuccessIffAllReconciled ==
    pc = "done" => (retErr = Nil <=> \A i \in Images : SkippedOK(i) \/ SignedOK(i))

\* C9 witness: a successful run that skipped one image and signed another.
C9_Witness ==
    /\ pc = "done"
    /\ retErr = Nil
    /\ \E i, j \in Images : SkippedOK(i) /\ SignedOK(j)

\* C10: an image whose reference is not well-formed gets no call but the
\* parse; once it is reached the run is over with the parse error.
C10_InvalidReferenceNoNetwork ==
    \A i \in Images :
        images[i] \notin WellFormedRefs =>
            /\ \A k \in EventsOf(i) : log[k].op = "ParseReference"
            /\ EventsOf(i) # {} =>
                  /\ pc = "done"
                  /\ idx = i
                  /\ retErr # Nil
                  /\ retErr[1] = "error parsing image reference for"
                  /\ ~signatureInfo[i].inspected

\* C10 witness: the second image's reference did not parse.
C10_Witness ==
    /\ pc = "done"
    /\ Len(images) >= 2
    /\ idx = 2
    /\ images[2] \notin WellFormedRefs
    /\ LastOp = "ParseReference"

\* C11: for a provider outside {"", "google", "github", "microsoft"} no
\* call of getToken(provider, deviceFlow)() ever reaches oauthflow.OIDConnect,
\* and every call that has returned, the first like the repeated ones,
\* returned the same unsupported-provider error and no token.
C11_UnsupportedProviderNeverAuthenticates ==
    (pc = "callers" /\ provider \notin {"", "google", "github", "microsoft"}) =>
        /\ Flows = {}
        /\ \A c \in Callers :
              callers[c].pc = "returned" =>
                  /\ callers[c].err = <<"unsupported provider", provider>>
                  /\ callers[c].tok = NoToken

\* C11 witness: all callers have returned from a request for "yahoo".
C11_Witness ==
    pc = "callers" /\ provider = "yahoo" /\ AllReturned

NeedsBoth(st) == st.inspected /\ ~st.LegacySignature /\ ~st.BundleSignature

\* C13: for an image inspected with both formats missing, every legacy
\* signing call precedes every bundled one and a bundled call follows a
\* legacy call that succeeded; when the legacy call fails no bundled call is
\* made for the image and the run returns the legacy signing error.
C13_LegacyBeforeBundled ==
    \A i \in Images :
        NeedsBoth(signatureInfo[i]) =>
            /\ \A k \in SignCalls(i) :
                  log[k].bundle =>
                      \E j \in SignCalls(i) : j < k /\ ~log[j].bundle /\ log[j].err = Nil
            /\ \A j \in SignCalls(i) :
                  (~log[j].bundle /\ log[j].err # Nil) =>
                      /\ \A k \in SignCalls(i) : ~log[k].bundle
                      /\ pc = "done"
                      /\ IsSuffix(<<"error signing legacy signature for image", images[i]>> \o log[j].err, retErr)

\* C13 witness: one image got the legacy and then the bundled call, and the
\* next one's legacy call failed.
C13_Witness ==
    /\ pc = "done"
    /\ Len(images) >= 2
    /\ idx = 2
    /\ NeedsBoth(signatureInfo[1])
    /\ Cardinality(SignCalls(1)) = 2
    /\ NeedsBoth(signatureInfo[2])
    /\ LastOp = "SignCmd"
    /\ ~log[Len(log)].bundle
    /\ retErr # Nil

\* the runs of the token closure made for image i
TokenRequests(i) == {k \in EventsOf(i) : log[k].op \in {"OIDConnect", "unsupported provider"}}

\* C14: every signing call of an image comes after the image's one token
\* request, which succeeded, and uses the token it returned (both calls the
\* same one when both formats are missing); an image whose token request
\* failed gets no signing call.
C14_CredentialBeforeSigning ==
    \A i \in Images :
        LET requests == TokenRequests(i)
            signings == SignCalls(i)
        IN  /\ Cardinality(requests) <= 1
            /\ \A k \in signings :
                  \E f \in requests :
                      /\ f < k
                      /\ log[f].op = "OIDConnect"
                      /\ log[f].err = Nil
                      /\ log[k].tok = log[f].tok
                      /\ log[k].tok # NoToken
            /\ (\E f \in requests : log[f].err # Nil) => signings = {}

\* C14 witness: an image missing both formats was signed twice on one token
\* request.
C14_Witness ==
    \E i \in Images :
        /\ NeedsBoth(signatureInfo[i])
        /\ Cardinality(SignCalls(i)) = 2
        /\ Cardinality(TokenRequests(i)) = 1

\* C15: a failed call of oauthflow.OIDConnect ends the run: the run is over
\* and returns an error wrapping the issuer's, and no further issuer call and
\* no signing call follows it.
C15_IssuerErrorNotRetried ==
    \A k \in 1..Len(log) :
        (log[k].op = "OIDConnect" /\ log[k].err # Nil) =>
            /\ pc = "done"
            /\ IsSuffix(<<"error getting OIDC token">> \o log[k].err, retErr)
            /\ \A j \in 1..Len(log) : j > k => log[j].op \notin {"OIDConnect", "SignCmd"}
            /\ SignCalls(log[k].img) = {}

\* C15 witness: the issuer failed for the second image after the first one
\* was signed.
C15_Witness ==
    /\ pc = "done"
    /\ idx = 2
    /\ LastOp = "OIDConnect"
    /\ log[Len(log)].err # Nil
    /\ SignCalls(1) # {}

VerifyCalls(i, op) == {k \in EventsOf(i) : log[k].op = op}

\* C16: the calls of the run are ordered by image (no call is followed by a
\* call for an earlier image); a call for image i+1
\* occurs only after image i was skipped or signed; every image gets each
\* trust-verification query at most once, an inspected image exactly once,
\* and both queries precede any signing call for the image; every image the
\* loop has passed was inspected.
C16_SequentialInOrder ==
    /\ \A k \in 1..(Len(log) - 1) : log[k].img <= log[k + 1].img
    /\ \A i \in Images : i < idx => signatureInfo[i].inspected
    /\ \A i \in Images :
          (i + 1 \in Images /\ \E k \in 1..Len(log) : log[k].img = i + 1) =>
              (SkippedOK(i) \/ SignedOK(i))
    /\ \A i \in Images :
          LET legacyCalls == VerifyCalls(i, "VerifyImageSignatures")
              bundledCalls == VerifyCalls(i, "VerifyImageAttestations")
          IN  /\ Cardinality(legacyCalls) <= 1
              /\ Cardinality(bundledCalls) <= 1
              /\ signatureInfo[i].inspected =>
                    /\ Cardinality(legacyCalls) = 1
                    /\ Cardinality(bundledCalls) = 1
              /\ \A k \in SignCalls(i) :
                    /\ signatureInfo[i].inspected
                    /\ \A v \in legacyCalls \cup bundledCalls : v < k

\* C16 witness: of two images the first was signed and the second is being
\* processed.
C16_Witness ==
    /\ Len(images) = 2
    /\ idx = 2
    /\ SignedOK(1)
    /\ EventsOf(2) # {}

\* C17: every call of oauthflow.OIDConnect gets the device-flow getter for
\* the default issuer when deviceFlow is set, whatever the provider, and the
\* provider's own getter otherwise.
C17_DeviceFlowOverridesProvider ==
    \A f \in Flows :
        log[f].getter =
            IF deviceFlow THEN "DeviceFlowTokenGetterForIssuer(DefaultOIDCIssuerURL)"
            ELSE CASE provider = "" -> "DefaultIDTokenGetter"
                   [] provider = "google" -> "PublicInstanceGoogleIDTokenGetter"
                   [] provider = "github" -> "PublicInstanceGithubIDTokenGetter"
                   [] provider = "microsoft" -> "PublicInstanceMicrosoftIDTokenGetter"
                   [] OTHER -> "none"

\* C17 witness: a flow ran with deviceFlow set and provider "github".
C17_Witness ==
    deviceFlow /\ provider = "github" /\ Flows # {} /\ pc = "sign_legacy"

Mentions(err, words) == \E n \in 1..Len(err) : err[n] \in words

LegacyWords == {"error verifying legacy signature", "error signing legacy signature for image",
                "legacy signatures found but verification failed",
                "legacy signature found but with unexpected type"}

BundledWords == {"error verifying bundled signature", "error signing bundled signature for image",
                 "bundled signatures found but verification failed",
                 "bundled signature found but with unexpected type"}

\* C18 as stated: the error a failed run returns names the image, names the
\* signature format when the failing call was for one, and ends with the
\* underlying cause.
C18_ErrorsCarryFullContext ==
    (pc = "done" /\ retErr # Nil) =>
        /\ Mentions(retErr, {images[idx]})
        /\ IsSuffix(log[Len(log)].err, retErr)
        /\ (LastOp = "VerifyImageSignatures" \/ (LastOp = "SignCmd" /\ ~log[Len(log)].bundle)) =>
              Mentions(retErr, LegacyWords)
        /\ (LastOp = "VerifyImageAttestations" \/ (LastOp = "SignCmd" /\ log[Len(log)].bundle)) =>
              Mentions(retErr, BundledWords)

\* C20: with a provider outside {"", "google", "github", "microsoft"}, with
\* or without deviceFlow, no flow and no signing call is ever made; every
\* image before the current one was inspected and skipped; the first image
\* that needs signing ends the run, with the unsupported-provider error
\* unless its trusted-root fetch failed first; the run that passes all its
\* images returns nil.
C20_ProviderValidationIsLazy ==
    (pc # "callers" /\ provider \notin {"", "google", "github", "microsoft"}) =>
        /\ Flows = {}
        /\ \A k \in 1..Len(log) : log[k].op # "SignCmd"
        /\ \A i \in Images : i < idx => SkippedOK(i)
        /\ \A i \in Images :
              (signatureInfo[i].inspected /\ ~FullySigned(signatureInfo[i]) /\ Left(i)) =>
                  /\ pc = "done"
                  /\ idx = i
                  /\ \/ (LastOp = "TrustedRoot" /\ log[Len(log)].err # Nil)
                     \/ IsSuffix(<<"error getting OIDC token", "unsupported provider", provider>>, retErr)
        /\ Mentions(retErr, {"unsupported provider"}) =>
              (signatureInfo[idx].inspected /\ ~FullySigned(signatureInfo[idx]))
        /\ (pc = "done" /\ \A i \in Images : SkippedOK(i)) => retErr = Nil

\* C20 witness: with deviceFlow set and provider "yahoo" the first image was
\* skipped and the second, which needs signing, ended the run with the
\* unsupported-provider error.
C20_Witness ==
    /\ deviceFlow
    /\ provider = "yahoo"
    /\ pc = "done"
    /\ idx = 2
    /\ SkippedOK(1)
    /\ Mentions(retErr, {"unsupported provider"})

AfterInterrupt == {k \in 1..Len(log) : ctxDone # <<>> /\ k > ctxDone[1]}

\* C12 as stated: once the interrupt has fired no image begins processing
\* and no signing call is started; the one signing call that may have been
\* in flight fails.
C12_InterruptStopsTheRun ==
    \A k \in AfterInterrupt :
        /\ log[k].op # "ParseReference"
        /\ log[k].op = "SignCmd" => (k = ctxDone[1] + 1 /\ log[k].err # Nil)

NameOf(k) == images[log[k].img]

Held(k) == IF log[k].bundle THEN registry[NameOf(k)].bundle ELSE registry[NameOf(k)].legacy

SignedOKCalls == {k \in 1..Len(log) : log[k].op = "SignCmd" /\ log[k].err = Nil}

\* C19: against a registry that keeps what it is given, after a run that
\* returned nil no later run makes a signing call or an authentication flow;
\* no signing call is ever made for a format that was present before the
\* first run or that an earlier signing call, of this run or of an earlier
\* one, has uploaded.
C19_RerunIdempotent ==
    /\ \A r \in 1..Len(prevRun) :
          prevRun[r].err = Nil =>
              \A k \in 1..Len(log) : k > prevRun[r].len => log[k].op \notin {"SignCmd", "OIDConnect"}
    /\ \A k \in 1..Len(log) :
          log[k].op = "SignCmd" =>
              /\ Held(k) # "present"
              /\ \A j \in SignedOKCalls :
                    j < k => ~(NameOf(j) = NameOf(k) /\ log[j].bundle = log[k].bundle)

\* C19 witness: the first run signed something and failed, the second signed
\* the rest and returned nil, the third made no signing call and no flow.
C19_Witness ==
    /\ Len(prevRun) = 2
    /\ pc = "done"
    /\ prevRun[1].err # Nil
    /\ prevRun[2].err = Nil
    /\ \E k \in SignedOKCalls : k <= prevRun[1].len
    /\ \E k \in SignedOKCalls : k > prevRun[1].len /\ k <= prevRun[2].len
    /\ Len(log) > prevRun[2].len

\* The call of SignImage for image i got its trusted root.
RootObtained(i) == \E k \in EventsOf(i) : log[k].op = "TrustedRoot" /\ log[k].err = Nil

\* The call of SignImage for image i returned an error.
Failed(i) == pc = "done" /\ idx = i /\ retErr # Nil

\* The calls of SignImage that were given both flags set and have returned.
BothFlagsCalls == {i \in Images : FullySigned(signatureInfo[i]) /\ Left(i)}

\* C21 as stated: a call of SignImage with legacySigned and bundleSigned both
\* true runs the authentication flow, makes no signing call, and returns nil
\* if the credential was obtained.
C21_DirectCallAuthenticates ==
    \A i \in BothFlagsCalls :
        /\ \E k \in EventsOf(i) : log[k].op = "OIDConnect"
        /\ SignCalls(i) = {}
        /\ CredentialObtained(i) => ~Failed(i)

\* C21: a call of SignImage with legacySigned and bundleSigned both true makes
\* no signing call; it makes no token request when cosign.TrustedRoot failed
\* and exactly one otherwise, which runs oauthflow.OIDConnect when the
\* provider is supported; and it returns nil exactly if the credential was
\* obtained.
C21_DirectCallAuthenticatesAfterTrustedRoot ==
    \A i \in BothFlagsCalls :
        LET requests == TokenRequests(i)
        IN  /\ SignCalls(i) = {}
            /\ Cardinality(requests) = IF RootObtained(i) THEN 1 ELSE 0
            /\ (RootObtained(i) /\ provider \in SupportedProviders) =>
                  \E k \in requests : log[k].op = "OIDConnect"
            /\ ~Failed(i) <=> CredentialObtained(i)

\* C21 witness: a call with both flags set got a credential and returned nil
\* without a signing call, and the caller's run is over.
C21_Witness ==
    /\ pc = "done"
    /\ retErr = Nil
    /\ 1 \in BothFlagsCalls
    /\ CredentialObtained(1)
    /\ SignCalls(1) = {}

====
